---- MODULE Spec2Model ----
(***************************************************************************)
(* Model of github.com/StevenZack/gte: the configuration loader            *)
(* (config.LoadConfig) and the HTTP server (server.NewServer,              *)
(* Server.ServeHTTP, Server.AddPrehandler, Server.Stop).                   *)
(*                                                                         *)
(* Strings are sequences of tokens: "/", ".", ":", "_", "-", "%" are the   *)
(* separator characters the code inspects, every other token is an opaque  *)
(* run of characters.  "/users/:id" is <<"/", "users", "/", ":", "id">>.   *)
(***************************************************************************)
EXTENDS Integers, Sequences, FiniteSets, TLC

VARIABLES
    srv,          \* the *Server NewServer returned: "nil" or "up"
    newErr,       \* the error NewServer returned: <<>> or <<later, earlier>>
    cfg,          \* Server.cfg (Routes, BlackList, InternalBlackList)
    prehandlers,  \* Server.prehandlers
    disk,         \* files below cfg.Root
    req,          \* the request ServeHTTP is answering
    resp,         \* what ServeHTTP did with it
    ldIn,         \* LoadConfig: its arguments and the files it reads
    ldOut,        \* LoadConfig: the (Config, error) it returned
    stopSrv,      \* Stop: the receiver, "nil" or "server"
    listener,     \* Stop: the listening socket, "open" or "closed"
    conns,        \* Stop: each connection "none", "idle", "active" or "closed"
    stopPc,       \* Stop: "idle", "waiting" (inside Shutdown) or "returned"
    stopErr,      \* Stop: the error returned
    elapsed,      \* Stop: ticks since the context was created
    backing,      \* ServeHTTP invocations: the array behind cfg.BlackList
    pc,           \* ServeHTTP invocations: where each one is
    combined,     \* ServeHTTP invocations: the slice each one ranges over
    answer,       \* ServeHTTP invocations: what each one answered
    sharedWrites  \* ServeHTTP invocations: writes made to shared memory

serveVars == <<srv, newErr, cfg, prehandlers, disk, req, resp>>
loadVars == <<ldIn, ldOut>>
stopVars == <<stopSrv, listener, conns, stopPc, stopErr, elapsed>>
concVars == <<backing, pc, combined, answer, sharedWrites>>
vars == <<serveVars, loadVars, stopVars, concVars>>

----------------------------------------------------------------------------
(* Bounds *)
MaxRoutes == 2
MaxPre == 1
MaxConns == 3
MaxProcs == 2

\* time.Second, the timeout Stop gives Shutdown, in ticks
GraceTicks == 2

----------------------------------------------------------------------------
(* strings *)
EmptyStr == <<>>

Max(S) == CHOOSE x \in S : \A y \in S : y <= x

HasPrefix(s, p) == Len(p) <= Len(s) /\ SubSeq(s, 1, Len(p)) = p

HasSuffix(s, p) == Len(p) <= Len(s) /\ SubSeq(s, Len(s) - Len(p) + 1, Len(s)) = p

TrimSuffix(s, p) == IF HasSuffix(s, p) THEN SubSeq(s, 1, Len(s) - Len(p)) ELSE s

Contains(s, tok) == \E i \in 1..Len(s) : s[i] = tok

\* filepath.Ext: the suffix beginning at the final dot in the final element
Ext(p) ==
    LET dots == {i \in 1..Len(p) : p[i] = "." /\ \A j \in i..Len(p) : p[j] # "/"}
    IN  IF dots = {} THEN EmptyStr ELSE SubSeq(p, Max(dots), Len(p))

\* filepath.Base for the paths used here: what follows the last separator
Base(p) ==
    LET seps == {i \in 1..Len(p) : p[i] = "/"}
    IN  IF seps = {} THEN p ELSE SubSeq(p, Max(seps) + 1, Len(p))

\* strings.Split(s, "/"): the segments between separators
RECURSIVE Split(_)
Split(s) ==
    LET seps == {i \in 1..Len(s) : s[i] = "/"}
    IN  IF seps = {} THEN <<s>>
        ELSE Split(SubSeq(s, 1, Max(seps) - 1)) \o <<SubSeq(s, Max(seps) + 1, Len(s))>>

----------------------------------------------------------------------------
(* the strings of the model *)
CONFIG_FILE_NAME == <<"gte", ".", "config", ".", "json">>

P_root    == <<"/">>
P_index   == <<"/", "index", ".", "html">>
P_config  == <<"/">> \o CONFIG_FILE_NAME
P_users42 == <<"/", "users", "/", "42">>
P_user    == <<"/", "user", ".", "html">>
P_logo    == <<"/", "logo", ".", "png">>
P_app     == <<"/", "app", ".", "js">>
P_bad     == <<"/", "100", "%", ".", "js">>

ReqPaths == {P_root, P_users42, P_user, P_logo, P_config}

\* config.Route values a descriptor may declare
RoutePool ==
    { [Path |-> <<"/", "users", "/", ":", "id">>,   To |-> P_user],
      [Path |-> <<"/", "users", "/", ":", "name">>, To |-> P_index],
      [Path |-> P_users42,                          To |-> P_logo],
      [Path |-> <<"/", ":", "page">>,               To |-> P_bad] }

RECURSIVE SeqsUpTo(_, _)
SeqsUpTo(S, n) ==
    IF n = 0 THEN {<<>>}
    ELSE LET shorter == SeqsUpTo(S, n - 1)
         IN  shorter \cup {Append(q, x) : q \in shorter, x \in S}

RouteLists == SeqsUpTo(RoutePool, MaxRoutes)

\* (BlackList, InternalBlackList) pairs a loaded configuration may carry
BlackLists ==
    { [BlackList |-> <<>>,          InternalBlackList |-> <<P_config>>],
      [BlackList |-> <<P_users42, P_logo>>, InternalBlackList |-> <<P_config>>] }

L_zhCN == <<"zh", "-", "CN">>

\* files that may exist below cfg.Root
DiskUniverse ==
    { <<"/", "logo", "_", "zh", ".", "png">>,
      <<"/", "logo", "_", "zh", "-", "CN", ".", "png">>,
      P_logo \o <<".", "webp">>,
      P_logo \o <<".", "gzip">>,
      P_config }

H_none == <<>>
H_gzip == <<"gzip", ",", "deflate">>
H_webp == <<"image", "/", "webp", ",", "*", "/", "*">>

Requests ==
    [path : ReqPaths, accept : {H_none, H_webp}, acceptEncoding : {H_none, H_gzip},
     lang : {L_zhCN}]

\* what util.ParseTemplates, ExecuteTemplate and the client connection do to a
\* markup request
TemplateEnvs == {"parseError", "nilSet", "undefined", "execError", "copyError", "ok"}

NoReq  == [path |-> <<>>, accept |-> <<>>, acceptEncoding |-> <<>>, lang |-> <<>>]
NoCfg  == [BlackList |-> <<>>, InternalBlackList |-> <<>>, Routes |-> <<>>]
NoRoute == [Path |-> <<>>, To |-> <<>>]

----------------------------------------------------------------------------
(* package util, as the specification describes it *)

IsParam(seg) == HasPrefix(seg, <<":">>)

RECURSIVE JoinSegs(_)
JoinSegs(segs) ==
    IF Len(segs) = 0 THEN EmptyStr
    ELSE IF Len(segs) = 1 THEN segs[1]
    ELSE JoinSegs(SubSeq(segs, 1, Len(segs) - 1)) \o <<"/">> \o segs[Len(segs)]

\* util.FormatParam: every parameter segment becomes one placeholder
FormatParam(path) ==
    LET segs == Split(path)
    IN  JoinSegs([i \in 1..Len(segs) |-> IF IsParam(segs[i]) THEN <<":">> ELSE segs[i]])

\* util.MatchRoute: same number of segments, literals equal, a parameter
\* matches any non-empty segment
MatchRoute(pattern, path) ==
    LET ps == Split(pattern)
        us == Split(path)
    IN  /\ Len(ps) = Len(us)
        /\ \A i \in 1..Len(ps) :
              IF IsParam(ps[i]) THEN us[i] # EmptyStr ELSE ps[i] = us[i]

\* util.GetLang, util.GetLangShort: the negotiated tag and its language subtag
GetLang(r) == r.lang

GetLangShort(r) ==
    LET dashes == {i \in 1..Len(r.lang) : r.lang[i] = "-"}
    IN  IF dashes = {} THEN r.lang
        ELSE SubSeq(r.lang, 1, (CHOOSE i \in dashes : \A j \in dashes : i <= j) - 1)

\* util.ShouldCWebp, util.ShouldGZip: the extensions eligible for each variant
ShouldCWebp(ext) == ext \in {<<".", "png">>, <<".", "jpg">>}

ShouldGZip(ext) == ext \in {<<".", "js">>, <<".", "css">>, <<".", "png">>}

----------------------------------------------------------------------------
(* server.NewServer *)

\* the map lookup checked[f]
Lookup(checked, f) == {e \in checked : e.key = f}

\* mutant of DuplicateCheck: the map is keyed by the raw path
RECURSIVE DuplicateCheckRawKey(_, _, _)
DuplicateCheckRawKey(routes, i, checked) ==
    IF i > Len(routes) THEN <<>>
    ELSE LET f    == routes[i].Path
             hits == Lookup(checked, f)
         IN  IF hits # {}
             THEN <<routes[i].Path, (CHOOSE e \in hits : TRUE).path>>
             ELSE DuplicateCheckRawKey(routes, i + 1,
                                       checked \cup {[path |-> routes[i].Path, key |-> f]})

\* the route duplication loop from route i on: <<>> when it runs to the end,
\* <<route.Path, exists>> when it returns the error
RECURSIVE DuplicateCheck(_, _, _)
DuplicateCheck(routes, i, checked) ==
    IF i > Len(routes) THEN <<>>
    ELSE LET f    == FormatParam(routes[i].Path)
             hits == Lookup(checked, f)
         IN  IF hits # {}
             THEN <<routes[i].Path, (CHOOSE e \in hits : TRUE).path>>
             ELSE DuplicateCheck(routes, i + 1, checked \cup {[path |-> routes[i].Path, key |-> f]})

NewServerError(c) == DuplicateCheck(c.Routes, 1, {})

NewServer(c) ==
    /\ srv = "nil"
    /\ newErr' = NewServerError(c)
    /\ IF NewServerError(c) = <<>>
       THEN srv' = "up" /\ cfg' = c
       ELSE srv' = "nil" /\ cfg' = c
    /\ UNCHANGED <<prehandlers, disk, req, resp, loadVars, stopVars, concVars>>

----------------------------------------------------------------------------
(* Server.ServeHTTP *)

NoResp ==
    [stage |-> "none", outcome |-> "none", contentType |-> <<>>, contentEncoding |-> <<>>,
     body |-> "none", file |-> <<>>, template |-> <<>>, route |-> NoRoute]

\* a prehandler is the path it answers itself
Interrupted(pres, r) == \E i \in 1..Len(pres) : pres[i] = r.path

\* mutant of Blacklisted: the internal list is left out
BlacklistedUserListOnly(c, r) == \E i \in 1..Len(c.BlackList) : r.path = c.BlackList[i]

\* the blacklist loop over append(BlackList, InternalBlackList...)
Blacklisted(c, r) ==
    LET all == c.BlackList \o c.InternalBlackList
    IN  \E i \in 1..Len(all) : r.path = all[i]

\* the route the request starts with
IdentityRoute(r) ==
    [Path |-> r.path, To |-> IF r.path = P_root THEN P_index ELSE r.path]

\* extension of the identity target, taken before the locale probe
RequestExt(r) == Ext(IdentityRoute(r).To)

\* the locale-suffixed sibling probe
LangProbe(d, r, route) ==
    LET ext    == Ext(route.To)
        prefix == TrimSuffix(route.To, ext)
        short  == prefix \o <<"_">> \o GetLangShort(r) \o ext
        full   == prefix \o <<"_">> \o GetLang(r) \o ext
    IN  IF short \in d THEN [route EXCEPT !.To = short]
        ELSE IF full \in d THEN [route EXCEPT !.To = full]
        ELSE route

\* mutant of ScanRoutes: the loop breaks at the first match
RECURSIVE ScanRoutesFirstMatch(_, _, _, _)
ScanRoutesFirstMatch(routes, i, r, route) ==
    IF i > Len(routes) THEN route
    ELSE IF MatchRoute(routes[i].Path, r.path)
    THEN [Path |-> routes[i].Path, To |-> routes[i].To]
    ELSE ScanRoutesFirstMatch(routes, i + 1, r, route)

\* the loop over cfg.Routes from route i on
RECURSIVE ScanRoutes(_, _, _, _)
ScanRoutes(routes, i, r, route) ==
    IF i > Len(routes) THEN route
    ELSE ScanRoutes(routes, i + 1, r,
                    IF MatchRoute(routes[i].Path, r.path)
                    THEN [Path |-> routes[i].Path, To |-> routes[i].To]
                    ELSE route)

ResolveRoute(c, d, r) == ScanRoutes(c.Routes, 1, r, LangProbe(d, r, IdentityRoute(r)))

\* mime.TypeByExtension and the type http.ServeFile derives from a file name
TypeByExtension(ext) ==
    CASE ext = <<".", "png">>  -> <<"image/png">>
      [] ext = <<".", "webp">> -> <<"image/webp">>
      [] ext = <<".", "js">>   -> <<"text/javascript">>
      [] ext = <<".", "html">> -> <<"text/html">>
      [] ext = <<".", "json">> -> <<"application/json">>
      [] ext = <<".", "gzip">> -> <<"application/x-gzip">>
      [] OTHER                 -> <<"application/octet-stream">>

\* http.Error: replaces the content type, keeps the other headers
HttpError(w, outcome) ==
    [w EXCEPT !.outcome = outcome, !.contentType = <<"text/plain">>,
              !.body = IF w.body = "none" THEN "plain" ELSE w.body]

\* Server.NotFound
NotFound(w) == HttpError(w, "notfound")

\* http.ServeFile
ServeFile(d, w, name) ==
    IF name \in d
    THEN [w EXCEPT !.outcome = "file", !.body = "file", !.file = name,
                   !.contentType = IF w.contentType = <<>>
                                   THEN TypeByExtension(Ext(name)) ELSE w.contentType]
    ELSE NotFound(w)

\* mutant of ServeStatic: the gzip sibling is tried before the webp sibling
ServeStaticGzipFirst(d, r, ext, w) ==
    LET path == w.route.To
    IN  IF /\ ShouldGZip(ext) /\ Contains(r.acceptEncoding, "gzip")
           /\ (path \o <<".", "gzip">>) \in d
        THEN ServeFile(d, [w EXCEPT !.contentEncoding = <<"gzip">>,
                                    !.contentType = TypeByExtension(ext)],
                       path \o <<".", "gzip">>)
        ELSE IF /\ ShouldCWebp(ext) /\ Contains(r.accept, "webp")
                /\ (path \o <<".", "webp">>) \in d
        THEN ServeFile(d, w, path \o <<".", "webp">>)
        ELSE ServeFile(d, w, path)

\* the default branch of the switch: webp sibling, gzip sibling, raw file
ServeStatic(d, r, ext, w) ==
    LET path == w.route.To
    IN  IF /\ ShouldCWebp(ext) /\ Contains(r.accept, "webp")
           /\ (path \o <<".", "webp">>) \in d
        THEN ServeFile(d, w, path \o <<".", "webp">>)
        ELSE IF /\ ShouldGZip(ext) /\ Contains(r.acceptEncoding, "gzip")
                /\ (path \o <<".", "gzip">>) \in d
        THEN ServeFile(d, [w EXCEPT !.contentEncoding = <<"gzip">>,
                                    !.contentType = TypeByExtension(ext)],
                       path \o <<".", "gzip">>)
        ELSE ServeFile(d, w, path)

\* the ".html" case of the switch: the headers set before rendering
MarkupHeaders(r, w) ==
    [w EXCEPT !.contentType = <<"text/html">>,
              !.contentEncoding = IF Contains(r.acceptEncoding, "gzip")
                                  THEN <<"gzip">> ELSE w.contentEncoding]

\* url.PathUnescape fails on a malformed escape
UnescapeFails(name) == Contains(name, "%")

\* closing the gzip writer appends the stream header and trailer to whatever
\* the handler wrote
GzipClose(w) == [w EXCEPT !.body = IF w.body = "none" THEN "gzip" ELSE "plain+gzip"]

\* parse templates, execute, write
Render(r, w, tenv) ==
    IF tenv = "parseError" THEN HttpError(w, "error")
    ELSE IF tenv = "nilSet" THEN NotFound(w)
    ELSE IF tenv = "undefined" THEN NotFound([w EXCEPT !.template = w.route.To])
    ELSE IF tenv = "execError" THEN HttpError([w EXCEPT !.template = w.route.To], "error")
    ELSE LET x == [w EXCEPT !.template = w.route.To, !.outcome = "template"]
         IN  IF Contains(r.acceptEncoding, "gzip")
             THEN IF UnescapeFails(Base(w.route.To)) THEN GzipClose(HttpError(x, "error"))
                  ELSE IF tenv = "copyError" THEN GzipClose(HttpError(x, "error"))
                  ELSE GzipClose(x)
             ELSE [x EXCEPT !.body = "html"]

Handle(c, pres, d, r, tenv) ==
    IF Interrupted(pres, r)
    THEN [NoResp EXCEPT !.stage = "prehandler", !.outcome = "intercepted"]
    ELSE IF Blacklisted(c, r) THEN NotFound([NoResp EXCEPT !.stage = "blacklist"])
    ELSE LET w == [NoResp EXCEPT !.route = ResolveRoute(c, d, r)]
         IN  IF RequestExt(r) = <<".", "html">>
             THEN Render(r, MarkupHeaders(r, [w EXCEPT !.stage = "render"]), tenv)
             ELSE ServeStatic(d, r, RequestExt(r), [w EXCEPT !.stage = "static"])

ServeHTTP(r, tenv) ==
    /\ srv = "up"
    /\ req = NoReq
    /\ req' = r
    /\ resp' = Handle(cfg, prehandlers, disk, r, tenv)
    /\ UNCHANGED <<srv, newErr, cfg, prehandlers, disk, loadVars, stopVars, concVars>>

\* the serve loop started by ListenAndServe completes the response and reads
\* the next request
FinishRequest ==
    /\ req # NoReq
    /\ req' = NoReq
    /\ resp' = NoResp
    /\ UNCHANGED <<srv, newErr, cfg, prehandlers, disk, loadVars, stopVars, concVars>>

\* Server.AddPrehandler
AddPrehandler(fn) ==
    /\ srv = "up"
    /\ req = NoReq
    /\ Len(prehandlers) < MaxPre
    /\ prehandlers' = Append(prehandlers, fn)
    /\ UNCHANGED <<srv, newErr, cfg, disk, req, resp, loadVars, stopVars, concVars>>

InitServe ==
    /\ srv = "nil"
    /\ newErr = <<>>
    /\ cfg = NoCfg
    /\ prehandlers = <<>>
    /\ disk \in SUBSET DiskUniverse
    /\ req = NoReq
    /\ resp = NoResp

\* the variables of the other operations, at rest
NoLoad == [called |-> FALSE]

IdleLoad == ldIn = NoLoad /\ ldOut = NoLoad

IdleStop ==
    /\ stopSrv = "server"
    /\ listener = "open"
    /\ conns = <<>>
    /\ stopPc = "idle"
    /\ stopErr = "none"
    /\ elapsed = 0

IdleConc ==
    /\ backing = <<>>
    /\ pc = <<>>
    /\ combined = <<>>
    /\ answer = <<>>
    /\ sharedWrites = {}

Init == InitServe /\ IdleLoad /\ IdleStop /\ IdleConc

Next ==
    \/ \E routes \in RouteLists, bl \in BlackLists :
          NewServer([BlackList |-> bl.BlackList,
                     InternalBlackList |-> bl.InternalBlackList, Routes |-> routes])
    \/ \E fn \in {P_users42} : AddPrehandler(fn)
    \/ \E r \in Requests, tenv \in TemplateEnvs : ServeHTTP(r, tenv)
    \/ FinishRequest

Spec == Init /\ [][Next]_vars

----------------------------------------------------------------------------
(* config.LoadConfig *)

ZeroLang == [Dir |-> <<>>, Default |-> <<>>, KeyAsValue |-> FALSE]

NilEnvs == [isNil |-> TRUE, entries |-> {}]

NilStrs == [isNil |-> TRUE, tags |-> {}]

\* the zero value of config.Config
ZeroConfig ==
    [BlackList |-> <<>>, InternalBlackList |-> <<>>, Routes |-> <<>>, Host |-> <<>>,
     Port |-> 0, NotFoundPage |-> <<>>, ApiServer |-> <<>>, Envs |-> NilEnvs,
     Lang |-> ZeroLang, Root |-> <<>>, Env |-> "", Strs |-> NilStrs]

\* the fields of Config without the json:"-" tag
JsonFields == {"Host", "Port", "Routes", "NotFoundPage", "BlackList", "ApiServer", "Envs", "Lang"}

\* a JSON object: the fields it declares and their values
NoObject == [has |-> {}, val |-> ZeroConfig]

\* json.Unmarshal into v: a declared field replaces v's, the others are kept
Unmarshal(v, obj) ==
    [f \in DOMAIN v |-> IF f \in obj.has /\ f \in JsonFields THEN obj.val[f] ELSE v[f]]

\* util.ReplaceFieldIND, as the specification describes it: every field of the
\* base takes the override's value
ReplaceFieldIND(v, v1) == [f \in DOMAIN v |-> v1[f]]

\* filepath.Join of two elements
Join(a, b) == IF a = <<>> THEN b ELSE IF b = <<>> THEN a ELSE a \o <<"/">> \o b

\* util.LANG_FILE_EXT
LANG_FILE_EXT == <<".", "json">>

N_en   == <<"en", ".", "json">>
N_txt  == <<"notes", ".", "txt">>
N_bad  == <<"strings", ".", "json">>
N_zhCN == <<"zh", "-", "CN", ".", "json">>

\* ioutil.ReadDir lists by file name
LangFileOrder == <<N_en, N_txt, N_bad, N_zhCN>>

\* language.Parse accepts the tag
IsLanguageTag(tag) == tag \in {<<"en">>, <<"zh">>, <<"zh", "-", "CN">>}

\* the loop over the directory entries from entry i on
RECURSIVE LoadLangFiles(_, _, _)
LoadLangFiles(dir, i, tags) ==
    IF i > Len(LangFileOrder) THEN [tags |-> tags, err |-> ""]
    ELSE LET name == LangFileOrder[i]
             lang == TrimSuffix(name, LANG_FILE_EXT)
         IN  IF name \notin dir.files \/ ~HasSuffix(name, LANG_FILE_EXT)
             THEN LoadLangFiles(dir, i + 1, tags)
             ELSE IF ~IsLanguageTag(lang) THEN [tags |-> tags, err |-> "InvalidLanguageName"]
             ELSE IF name \in dir.broken THEN [tags |-> tags, err |-> "ReadingLanguageFile"]
             ELSE LoadLangFiles(dir, i + 1, tags \cup {lang})

\* mutant of LangCheck: the default-language test is left out
LangCheckNoDefaultTest(v, dirs) ==
    IF v.Lang.Dir = <<>> THEN [cfg |-> v, err |-> ""]
    ELSE IF v.Lang.Default = <<>> THEN [cfg |-> v, err |-> "DefaultNotSet"]
    ELSE LET dir == dirs[Join(v.Root, v.Lang.Dir)]
         IN  IF dir.kind = "missing" THEN [cfg |-> v, err |-> "LangDirMissing"]
             ELSE IF dir.kind = "unreadable"
             THEN [cfg |-> [v EXCEPT !.Strs = [isNil |-> FALSE, tags |-> {}]], err |-> "ReadDir"]
             ELSE LET got == LoadLangFiles(dir, 1, {})
                      w   == [v EXCEPT !.Strs = [isNil |-> FALSE, tags |-> got.tags]]
                  IN  [cfg |-> w, err |-> got.err]

\* the lang file check
LangCheck(v, dirs) ==
    IF v.Lang.Dir = <<>> THEN [cfg |-> v, err |-> ""]
    ELSE IF v.Lang.Default = <<>> THEN [cfg |-> v, err |-> "DefaultNotSet"]
    ELSE LET dir == dirs[Join(v.Root, v.Lang.Dir)]
         IN  IF dir.kind = "missing" THEN [cfg |-> v, err |-> "LangDirMissing"]
             ELSE IF dir.kind = "unreadable"
             THEN [cfg |-> [v EXCEPT !.Strs = [isNil |-> FALSE, tags |-> {}]], err |-> "ReadDir"]
             ELSE LET got == LoadLangFiles(dir, 1, {})
                      w   == [v EXCEPT !.Strs = [isNil |-> FALSE, tags |-> got.tags]]
                  IN  IF got.err # "" THEN [cfg |-> w, err |-> got.err]
                      ELSE IF ~w.Lang.KeyAsValue /\ w.Lang.Default \notin w.Strs.tags
                      THEN [cfg |-> w, err |-> "DefaultLangNotFound"]
                      ELSE [cfg |-> w, err |-> ""]

EnvEntry(v, env) == {e \in v.Envs.entries : e.name = env}

\* mutant of ApplyEnv: a declared environment is found and not applied
ApplyEnvNotApplied(v, env) ==
    IF ~v.Envs.isNil /\ env # ""
    THEN IF EnvEntry(v, env) = {} THEN [cfg |-> v, err |-> "NoEnvironment"]
         ELSE [cfg |-> v, err |-> ""]
    ELSE [cfg |-> v, err |-> ""]

\* handle envs
ApplyEnv(v, env) ==
    IF ~v.Envs.isNil /\ env # ""
    THEN IF EnvEntry(v, env) = {} THEN [cfg |-> v, err |-> "NoEnvironment"]
         ELSE LET v1 == Unmarshal(ZeroConfig, (CHOOSE e \in EnvEntry(v, env) : TRUE).obj)
              IN  [cfg |-> ReplaceFieldIND(v, v1), err |-> ""]
    ELSE [cfg |-> v, err |-> ""]

\* the defaults LoadConfig starts from
DefaultConfig(env, root, port) ==
    [ZeroConfig EXCEPT !.Env = env, !.Host = <<"0.0.0.0">>, !.Port = port, !.Root = root,
                       !.InternalBlackList = <<<<"/">> \o CONFIG_FILE_NAME>>,
                       !.ApiServer = <<"http://localhost">>]

LoadConfigResult(in) ==
    LET v == DefaultConfig(in.env, in.root, in.port)
    IN  IF in.descriptor.kind = "absent" THEN [cfg |-> v, err |-> ""]
        ELSE IF in.descriptor.kind = "unreadable" THEN [cfg |-> v, err |-> "ReadFile"]
        ELSE IF in.descriptor.kind = "malformed" THEN [cfg |-> v, err |-> "Unmarshal"]
        ELSE LET merged == ApplyEnv(Unmarshal(v, in.descriptor.obj), in.env)
             IN  IF merged.err # "" THEN merged ELSE LangCheck(merged.cfg, in.dirs)

LoadConfig(in) ==
    /\ ~ldIn.called
    /\ ldIn' = [called |-> TRUE, in |-> in]
    /\ ldOut' = [called |-> TRUE, out |-> LoadConfigResult(in)]
    /\ UNCHANGED <<serveVars, stopVars, concVars>>

(* the inputs of LoadConfig *)
R_users == [Path |-> <<"/", "users", "/", ":", "id">>, To |-> P_user]
R_logo  == [Path |-> P_users42, To |-> P_logo]

LangBlocks ==
    { ZeroLang,
      [Dir |-> <<"lang">>, Default |-> <<>>, KeyAsValue |-> FALSE],
      [Dir |-> <<"lang">>, Default |-> L_zhCN, KeyAsValue |-> FALSE],
      [Dir |-> <<"lang">>, Default |-> L_zhCN, KeyAsValue |-> TRUE],
      [Dir |-> <<"lang">>, Default |-> <<"en">>, KeyAsValue |-> FALSE] }

O_port == [has |-> {"Port"}, val |-> [ZeroConfig EXCEPT !.Port = 80]]

O_lang ==
    [has |-> {"Port", "Routes", "Lang"},
     val |-> [ZeroConfig EXCEPT !.Port = 3000, !.Routes = <<R_logo>>,
                                !.Lang = [Dir |-> <<"lang">>, Default |-> L_zhCN,
                                          KeyAsValue |-> FALSE]]]

EnvsBlocks ==
    { NilEnvs,
      [isNil |-> FALSE, entries |-> {}],
      [isNil |-> FALSE, entries |-> {[name |-> "prod", obj |-> O_port]}],
      [isNil |-> FALSE, entries |-> {[name |-> "prod", obj |-> O_port],
                                     [name |-> "dev", obj |-> O_lang]}] }

DescriptorObjects ==
    { [has |-> {"Routes", "BlackList", "NotFoundPage", "Lang"}
                 \cup (IF envs.isNil THEN {} ELSE {"Envs"}),
       val |-> [ZeroConfig EXCEPT !.Routes = <<R_users>>, !.BlackList = <<P_users42>>,
                                  !.NotFoundPage = <<"/", "404", ".", "html">>,
                                  !.Lang = lang, !.Envs = envs]] :
      lang \in LangBlocks, envs \in EnvsBlocks }

Descriptors ==
    {[obj |-> NoObject, kind |-> k] : k \in {"absent", "unreadable", "malformed"}}
    \cup {[obj |-> o, kind |-> "parsed"] : o \in DescriptorObjects}

DirStates ==
    {[files |-> {}, broken |-> {}, kind |-> k] : k \in {"missing", "unreadable"}}
    \cup UNION {{[files |-> fs, broken |-> b, kind |-> "dir"] : b \in {{}, {N_en} \cap fs}} :
                  fs \in SUBSET {N_en, N_txt, N_bad, N_zhCN}}

RootDir == <<"srv">>

DirLayouts ==
    { (Join(RootDir, <<"lang">>) :> under) @@ (<<"lang">> :> cwd) :
      under \in DirStates,
      cwd \in {[files |-> {}, broken |-> {}, kind |-> "missing"],
               [files |-> {N_zhCN}, broken |-> {}, kind |-> "dir"]} }

LoadInputs ==
    [dirs : DirLayouts, env : {"", "prod", "dev", "test"}, root : {RootDir}, port : {8080},
     descriptor : Descriptors]

IdleServe ==
    /\ srv = "nil"
    /\ newErr = <<>>
    /\ cfg = NoCfg
    /\ prehandlers = <<>>
    /\ disk = {}
    /\ req = NoReq
    /\ resp = NoResp

InitLoad == IdleServe /\ IdleLoad /\ IdleStop /\ IdleConc

NextLoad == \E in \in LoadInputs : LoadConfig(in)

SpecLoad == InitLoad /\ [][NextLoad]_vars

----------------------------------------------------------------------------
(* Server.Stop, with the connections of the http.Server it shuts down *)

Conns == 1..MaxConns

Open(c) == conns[c] \in {"idle", "active"}

\* http.Server.closeIdleConns: idle connections are closed, active ones stay
CloseIdleConns == [c \in Conns |-> IF conns[c] = "idle" THEN "closed" ELSE conns[c]]

Quiescent == \A c \in Conns : conns[c] # "active"

\* the serve loop accepts a connection
Accept(c) ==
    /\ stopSrv = "server"
    /\ listener = "open"
    /\ conns[c] = "none"
    /\ conns' = [conns EXCEPT ![c] = "idle"]
    /\ UNCHANGED <<stopSrv, listener, stopPc, stopErr, elapsed, serveVars, loadVars, concVars>>

\* a request arrives on a connection and ServeHTTP starts
BeginRequest(c) ==
    /\ conns[c] = "idle"
    /\ conns' = [conns EXCEPT ![c] = "active"]
    /\ UNCHANGED <<stopSrv, listener, stopPc, stopErr, elapsed, serveVars, loadVars, concVars>>

\* ServeHTTP returns; a server that is shutting down closes the connection
EndRequest(c) ==
    /\ conns[c] = "active"
    /\ conns' = [conns EXCEPT ![c] = IF stopPc = "idle" THEN "idle" ELSE "closed"]
    /\ UNCHANGED <<stopSrv, listener, stopPc, stopErr, elapsed, serveVars, loadVars, concVars>>

\* Stop is called: nil receiver, or context.WithTimeout and the start of Shutdown
StopCall ==
    /\ stopPc = "idle"
    /\ IF stopSrv = "nil"
       THEN /\ stopPc' = "returned"
            /\ stopErr' = "nil"
            /\ UNCHANGED <<listener, conns, elapsed>>
       ELSE /\ stopPc' = "waiting"
            /\ listener' = "closed"
            /\ conns' = CloseIdleConns
            /\ elapsed' = 0
            /\ UNCHANGED stopErr
    /\ UNCHANGED <<stopSrv, serveVars, loadVars, concVars>>

\* Shutdown polls: it returns nil once no connection is active
ShutdownPoll ==
    /\ stopPc = "waiting"
    /\ conns' = CloseIdleConns
    /\ IF Quiescent
       THEN stopPc' = "returned" /\ stopErr' = "nil"
       ELSE UNCHANGED <<stopPc, stopErr>>
    /\ UNCHANGED <<stopSrv, listener, elapsed, serveVars, loadVars, concVars>>

\* time passes while Shutdown waits
Tick ==
    /\ stopPc = "waiting"
    /\ elapsed < GraceTicks
    /\ elapsed' = elapsed + 1
    /\ UNCHANGED <<stopSrv, listener, conns, stopPc, stopErr, serveVars, loadVars, concVars>>

\* the context expires: Shutdown returns ctx.Err() and Stop returns it
Deadline ==
    /\ stopPc = "waiting"
    /\ elapsed = GraceTicks
    /\ stopPc' = "returned"
    /\ stopErr' = "deadline exceeded"
    /\ UNCHANGED <<stopSrv, listener, conns, elapsed, serveVars, loadVars, concVars>>

InitStop ==
    /\ IdleServe /\ IdleLoad /\ IdleConc
    /\ stopSrv \in {"nil", "server"}
    /\ listener = "open"
    /\ conns = [c \in Conns |-> "none"]
    /\ stopPc = "idle"
    /\ stopErr = "none"
    /\ elapsed = 0

NextStop ==
    \/ \E c \in Conns : Accept(c)
    \/ \E c \in Conns : BeginRequest(c)
    \/ \E c \in Conns : EndRequest(c)
    \/ StopCall
    \/ ShutdownPoll
    \/ Tick
    \/ Deadline

SpecStop == InitStop /\ [][NextStop]_vars

----------------------------------------------------------------------------
(* concurrent ServeHTTP invocations: the blacklist step *)

Procs == 1..MaxProcs

\* cfg.InternalBlackList as LoadConfig builds it
InternalList == <<P_config>>

\* cfg.BlackList as a slice: its length, and the array behind it up to its
\* capacity (the decoder grows the array in steps, so capacity may exceed length)
BackingLayouts ==
    { [len |-> 0, arr |-> <<>>],
      [len |-> 1, arr |-> <<P_users42>>],
      [len |-> 1, arr |-> <<P_users42, <<>>, <<>>, <<>>>>],
      [len |-> 3, arr |-> <<P_users42, P_logo, P_user, <<>>>>] }

Fits == backing.len + Len(InternalList) <= Len(backing.arr)

\* ServeHTTP is entered with a request path
Enter(p, path) ==
    /\ pc[p] = "idle"
    /\ pc' = [pc EXCEPT ![p] = "append"]
    /\ answer' = [answer EXCEPT ![p] = [path |-> path, result |-> "none"]]
    /\ UNCHANGED <<backing, combined, sharedWrites, serveVars, loadVars, stopVars>>

\* append(s.cfg.BlackList, s.cfg.InternalBlackList...): within capacity the
\* elements are stored in the array behind cfg.BlackList, otherwise in a new one
AppendLists(p) ==
    /\ pc[p] = "append"
    /\ pc' = [pc EXCEPT ![p] = "scan"]
    /\ IF Fits
       THEN /\ backing' = [backing EXCEPT !.arr =
                             [i \in 1..Len(backing.arr) |->
                                 IF i > backing.len /\ i <= backing.len + Len(InternalList)
                                 THEN InternalList[i - backing.len] ELSE backing.arr[i]]]
            /\ sharedWrites' = sharedWrites \cup
                 {<<p, i>> : i \in (backing.len + 1)..(backing.len + Len(InternalList))}
            /\ combined' = [combined EXCEPT ![p] =
                              [n |-> backing.len + Len(InternalList), arr |-> <<>>,
                               shared |-> TRUE]]
       ELSE /\ combined' = [combined EXCEPT ![p] =
                              [n |-> backing.len + Len(InternalList),
                               arr |-> SubSeq(backing.arr, 1, backing.len) \o InternalList,
                               shared |-> FALSE]]
            /\ UNCHANGED <<backing, sharedWrites>>
    /\ UNCHANGED <<answer, serveVars, loadVars, stopVars>>

\* the elements the range loop of invocation p reads
Ranged(p) ==
    IF combined[p].shared THEN SubSeq(backing.arr, 1, combined[p].n) ELSE combined[p].arr

\* the range loop: NotFound on an equal entry
ScanLists(p) ==
    /\ pc[p] = "scan"
    /\ pc' = [pc EXCEPT ![p] = "done"]
    /\ answer' = [answer EXCEPT ![p].result =
                     IF \E i \in 1..Len(Ranged(p)) : Ranged(p)[i] = answer[p].path
                     THEN "notfound" ELSE "continue"]
    /\ UNCHANGED <<backing, combined, sharedWrites, serveVars, loadVars, stopVars>>

\* the invocation returns
Leave(p) ==
    /\ pc[p] = "done"
    /\ pc' = [pc EXCEPT ![p] = "idle"]
    /\ UNCHANGED <<backing, combined, answer, sharedWrites, serveVars, loadVars, stopVars>>

NoCombined == [n |-> 0, arr |-> <<>>, shared |-> FALSE]

InitConc ==
    /\ IdleServe /\ IdleLoad /\ IdleStop
    /\ backing \in BackingLayouts
    /\ pc = [p \in Procs |-> "idle"]
    /\ combined = [p \in Procs |-> NoCombined]
    /\ answer = [p \in Procs |-> [path |-> <<>>, result |-> "none"]]
    /\ sharedWrites = {}

NextConc ==
    \/ \E p \in Procs, path \in {P_config, P_users42, P_app} : Enter(p, path)
    \/ \E p \in Procs : AppendLists(p)
    \/ \E p \in Procs : ScanLists(p)
    \/ \E p \in Procs : Leave(p)

SpecConc == InitConc /\ [][NextConc]_vars

----------------------------------------------------------------------------
(* Properties of the request pipeline *)

Handled == req # NoReq

InList(list, x) == \E i \in 1..Len(list) : list[i] = x

Matching(routes, path) == {i \in 1..Len(routes) : MatchRoute(routes[i].Path, path)}

\* C1: a request no prehandler short-circuits whose raw path equals an entry of
\* cfg.BlackList or cfg.InternalBlackList ends not-found, whatever the route
\* table and the disk hold; no file is served and no template is rendered.
C1_BlacklistedIsNotFound ==
    (/\ Handled
     /\ ~Interrupted(prehandlers, req)
     /\ (InList(cfg.BlackList, req.path) \/ InList(cfg.InternalBlackList, req.path)))
    => /\ resp.outcome = "notfound"
       /\ resp.body = "plain"
       /\ resp.file = <<>>
       /\ resp.template = <<>>

\* C1 witness: the descriptor path is requested while a declared route matches it
C1_Witness ==
    /\ Handled
    /\ req.path = P_config
    /\ InList(cfg.InternalBlackList, P_config)
    /\ Matching(cfg.Routes, req.path) # {}
    /\ resp.outcome = "notfound"

\* C2: the resolved route is that of the last declared route matching the
\* original request path (Path and To both); with no match it is the request
\* path with the identity or locale-substituted target.
C2_LastMatchWins ==
    (Handled /\ resp.stage \in {"static", "render"})
    => LET m == Matching(cfg.Routes, req.path)
           ext == Ext(IdentityRoute(req).To)
           prefix == TrimSuffix(IdentityRoute(req).To, ext)
           short == prefix \o <<"_">> \o GetLangShort(req) \o ext
           full == prefix \o <<"_">> \o GetLang(req) \o ext
       IN  IF m # {}
           THEN resp.route = cfg.Routes[Max(m)]
           ELSE /\ resp.route.Path = req.path
                /\ resp.route.To = IF short \in disk THEN short
                                   ELSE IF full \in disk THEN full
                                   ELSE IdentityRoute(req).To

\* C2 witness: two declared routes with different targets match the request
C2_Witness ==
    /\ Handled
    /\ resp.stage \in {"static", "render"}
    /\ Cardinality(Matching(cfg.Routes, req.path)) >= 2
    /\ cfg.Routes[1].To # cfg.Routes[2].To
    /\ resp.route = cfg.Routes[Max(Matching(cfg.Routes, req.path))]

Colliding(routes) ==
    {p \in (1..Len(routes)) \X (1..Len(routes)) :
        p[1] < p[2] /\ FormatParam(routes[p[1]].Path) = FormatParam(routes[p[2]].Path)}

\* C3: NewServer returns a server and no error for a route list without two
\* routes of the same parameterized shape; for a list with such a pair it
\* returns no server and an error naming the later and the earlier raw path of
\* a colliding pair.
C3_RouteValidation ==
    cfg # NoCfg
    => /\ (Colliding(cfg.Routes) = {} => srv = "up" /\ newErr = <<>>)
       /\ (Colliding(cfg.Routes) # {}
             => /\ srv = "nil"
                /\ \E p \in Colliding(cfg.Routes) :
                      newErr = <<cfg.Routes[p[2]].Path, cfg.Routes[p[1]].Path>>)

\* C3 witness: two different raw paths with one shape were rejected
C3_Witness ==
    /\ srv = "nil"
    /\ newErr # <<>>
    /\ newErr[1] # newErr[2]
    /\ FormatParam(newErr[1]) = FormatParam(newErr[2])

\* C6: the serve path follows the extension of the final resolved target: a
\* markup target is rendered, any other target is served statically.
C6_ServePathByResolvedTarget ==
    (Handled /\ resp.stage \in {"static", "render"})
    => (resp.stage = "render" <=> Ext(resp.route.To) = <<".", "html">>)

\* C7: a webp-eligible request advertising webp whose '<target>.webp' exists
\* is served exactly that file with no Content-Encoding; the '.gzip' sibling is
\* served (Content-Encoding gzip, canonical content type) only when the webp
\* branch selected nothing, and the raw target only when neither did.
C7_WebpBeforeGzip ==
    (Handled /\ resp.stage = "static")
    => LET ext  == Ext(IdentityRoute(req).To)
           webp == resp.route.To \o <<".", "webp">>
           gz   == resp.route.To \o <<".", "gzip">>
           webpChosen == ShouldCWebp(ext) /\ Contains(req.accept, "webp") /\ webp \in disk
           gzipChosen == /\ ~webpChosen /\ ShouldGZip(ext)
                         /\ Contains(req.acceptEncoding, "gzip") /\ gz \in disk
       IN  /\ webpChosen => resp.file = webp /\ resp.contentEncoding = <<>>
           /\ resp.file = gz
                => gzipChosen /\ resp.contentEncoding = <<"gzip">>
                   /\ resp.contentType = TypeByExtension(ext)
           /\ gzipChosen => resp.file = gz
           /\ (resp.file = resp.route.To \/ resp.outcome = "notfound")
                => ~webpChosen /\ ~gzipChosen

\* C7 witness: the webp file is served although gzip is advertised and the
\* pre-compressed sibling exists
C7_Witness ==
    /\ Handled
    /\ resp.stage = "static"
    /\ Contains(req.acceptEncoding, "gzip")
    /\ ShouldGZip(Ext(req.path))
    /\ (resp.route.To \o <<".", "gzip">>) \in disk
    /\ resp.file = resp.route.To \o <<".", "webp">>
    /\ resp.contentEncoding = <<>>

\* C10: on every exit of ServeHTTP the response carries Content-Encoding gzip
\* exactly when its body is gzip-compressed.
C10_EncodingHeaderMatchesBody ==
    Handled
    => (resp.contentEncoding = <<"gzip">>
          <=> \/ resp.body = "gzip"
              \/ (resp.body = "file" /\ HasSuffix(resp.file, <<".", "gzip">>)))

----------------------------------------------------------------------------
(* Properties of the configuration loader *)

Loaded == ldOut.called

Parsed == ldIn.in.descriptor.kind = "parsed"

Declared == {e \in ldIn.in.descriptor.obj.val.Envs.entries : e.name = ldIn.in.env}

\* the value an override object gives a field: the declared one, or zero
OverrideField(obj, f) == IF f \in obj.has THEN obj.val[f] ELSE ZeroConfig[f]

ListedDir == ldIn.in.dirs[Join(ldOut.out.cfg.Root, ldOut.out.cfg.Lang.Dir)]

\* C5: a configuration returned without error that has a locale directory has
\* a default tag, and has the default tag's table or keyAsValue; with default
\* zh-CN, keyAsValue false and no zh-CN resource file among valid locale files
\* LoadConfig fails with the default-language-resource-not-found error.
C5_DefaultLocalePresent ==
    Loaded
    => /\ (ldOut.out.err = "" /\ ldOut.out.cfg.Lang.Dir # <<>>)
            => /\ ldOut.out.cfg.Lang.Default # <<>>
               /\ \/ ldOut.out.cfg.Lang.KeyAsValue
                  \/ ldOut.out.cfg.Lang.Default \in ldOut.out.cfg.Strs.tags
       /\ (/\ ldOut.out.err \notin {"ReadFile", "Unmarshal", "NoEnvironment"}
           /\ ldOut.out.cfg.Lang = [Dir |-> <<"lang">>, Default |-> L_zhCN, KeyAsValue |-> FALSE]
           /\ ListedDir.kind = "dir"
           /\ N_zhCN \notin ListedDir.files
           /\ N_bad \notin ListedDir.files
           /\ ListedDir.broken = {})
            => ldOut.out.err = "DefaultLangNotFound"

\* C5 witness: the load fails for the missing default table although another
\* locale file was loaded
C5_Witness ==
    /\ Loaded
    /\ ldOut.out.err = "DefaultLangNotFound"
    /\ ldOut.out.cfg.Lang.Default = L_zhCN
    /\ <<"en">> \in ldOut.out.cfg.Strs.tags

----------------------------------------------------------------------------
(* Properties of Stop and of concurrent requests *)

\* C8: once Stop has returned on a server no connection is still open and no
\* request is still being handled.
C8_StopLeavesNothingOpen ==
    (stopPc = "returned" /\ stopSrv = "server") => \A c \in Conns : ~Open(c)

\* C9: no ServeHTTP invocation writes to memory shared between requests; the
\* array behind cfg.BlackList is only read.
C9_RequestPathOnlyReads == sharedWrites = {}

====
